---- MODULE Spec2Model ----
(***************************************************************************)
(* Model of fs/sync.c: the coalescing sync() system call (a generation     *)
(* counter sync_seq under sync_mutex), sync_file_range (argument           *)
(* validation in signed fixed-width arithmetic followed by up to three     *)
(* phases on the file's mapping), the flushing of super blocks (do_sync,   *)
(* syncfs, emergency_sync), fsync / fdatasync / generic_write_sync, and    *)
(* the dynamic-fsync kill switch.                                          *)
(*                                                                         *)
(* Integer widths are scaled down: sync_seq is an unsigned SeqBits-bit     *)
(* counter instead of an unsigned long, loff_t is a signed LoffBits-bit    *)
(* integer instead of a signed 64-bit one.  All arithmetic wraps exactly   *)
(* as it does at full width.                                               *)
(***************************************************************************)
EXTENDS Integers, Sequences, FiniteSets, TLC

\* ------------------------------------------------------------------ bounds
NumThreads == 3      \* concurrent callers of sync()
MaxCalls == 4        \* sync() calls started in one behaviour, all callers together
SeqBits == 3         \* width of sync_seq in the model (unsigned long in the code)
LoffBits == 8        \* width of loff_t in the model (signed 64-bit in the code)
NumVolumes == 2      \* mounted super blocks, in the order iterate_supers() visits them
MaxEmergency == 2    \* emergency_sync() calls made in one behaviour

Threads == 1..NumThreads
Volumes == 1..NumVolumes
NoOwner == 0         \* sync_mutex is free
NoValue == 0 - 1     \* ret of a caller whose call has not returned

RECURSIVE Pow2(_)
Pow2(n) == IF n = 0 THEN 1 ELSE 2 * Pow2(n - 1)

SeqMod == Pow2(SeqBits)          \* ULONG_MAX + 1
ULONG_MAX == SeqMod - 1

VARIABLES
  sync_seq,      \* static unsigned long sync_seq
  sync_mutex,    \* owner of sync_mutex, NoOwner when free
  pc,            \* per caller: position inside sync()
  snap,          \* per caller: local snap (0 outside a call)
  snap_done,     \* per caller: local snap_done (0 outside a call)
  ret,           \* per caller: value returned by its last sync(), else NoValue
  path,          \* per caller: how the last call returned: "none", "early", "full"
  warned,        \* a WARN_ON_ONCE parity assertion has fired
  ncalls,        \* history: sync() calls started
  started,       \* history: do_sync() passes started (pass ids are 1..started)
  donePasses,    \* history: ids of the passes that ran to completion
  myPass,        \* per caller: id of the pass it is running, 0 if none
  passes,        \* per caller: passes it executed in its current/last call
  snapStarted,   \* per caller: value of started when it read snap
  snapDone,      \* per caller: number of completed passes when it read snap
  dyn_fsync_active,     \* extern bool dyn_fsync_active
  early_suspend_active, \* extern bool early_suspend_active
  pgoff32,       \* sizeof(pgoff_t) == 4 in this build
  rpc,           \* position of the sync_file_range caller
  r_entry,       \* the system call entered: "sync_file_range" or "sync_file_range2"
  r_fd,          \* argument fd
  r_offset,      \* argument offset
  r_nbytes,      \* argument nbytes (line 314 may clear it)
  r_flags,       \* argument flags, as the set of its bits
  r_endbyte,     \* local endbyte
  r_ret,         \* local ret; the returned value once r_returned
  r_returned,    \* the last call has returned
  r_arg_nbytes,  \* history: nbytes as passed by the caller
  r_short,       \* history: the call was cut short by the fsync kill switch
  r_trace,       \* history: the phases invoked on the mapping, in order
  r_refs,        \* history: file references held by the caller
  r_lookups,     \* history: descriptor lookups (fget_light) made by the call
  sb_kind,       \* per super block: what is mounted there (see SbKinds)
  vfs_emergency_remount, \* extern atomic_t vfs_emergency_remount, as a flag
  vpc,           \* position of the caller of do_sync() / syncfs()
  v_entry,       \* the function entered: "do_sync" or "syncfs"
  v_fd,          \* syncfs: argument fd (0 does not resolve, v is a file on volume v)
  v_wait,        \* do_sync: the wait argument of the running sync_filesystems()
  v_i,           \* do_sync: the super block iterate_supers() visits next
  v_ret,         \* local ret; the returned value once v_returned
  v_returned,    \* the last call has returned
  v_trace,       \* history: the __sync_filesystem() calls of this call, in order
  v_refs,        \* history: file references held by the caller
  v_lock,        \* history: read holds of s_umount taken by the caller
  v_puts,        \* history: fput_light() calls of this call
  v_ups,         \* history: up_read() calls of this call
  v_woken,       \* history: wakeup_flusher_threads() was called in this call
  v_warned,      \* the WARN_ON of line 48 has fired in this call
  e_calls,       \* history: emergency_sync() calls that have returned
  e_failed,      \* history: those whose kmalloc() failed
  work_queue,    \* work items queued by schedule_work() and not yet started
  wpc,           \* position of the worker inside do_sync_work()
  w_pass,        \* worker: which of the two sync_filesystems() calls runs
  w_i,           \* worker: the super block iterate_supers() visits next
  w_trace,       \* history: the __sync_filesystem() calls of the running work item
  w_started,     \* history: work items started
  w_reports,     \* history: "Emergency Sync complete" messages printed
  fpc,           \* position of the caller of fsync / fdatasync / generic_write_sync
  f_entry,       \* the function entered: "fsync", "fdatasync" or "generic_write_sync"
  f_fd,          \* argument fd, or the file passed to generic_write_sync
  f_oflags,      \* generic_write_sync: file->f_flags, as the set of its bits
  f_isync,       \* generic_write_sync: IS_SYNC(file->f_mapping->host)
  f_pos,         \* generic_write_sync: argument pos
  f_count,       \* generic_write_sync: argument count
  f_datasync,    \* argument datasync of do_fsync / vfs_fsync_range
  f_start,       \* argument start of vfs_fsync_range
  f_end,         \* argument end of vfs_fsync_range
  f_ret,         \* local ret / err; the returned value once f_returned
  f_returned,    \* the last call has returned
  f_short,       \* history: the call was cut short by the fsync kill switch
  f_calls,       \* history: the f_op->fsync calls of this call, in order
  f_refs,        \* history: file references held by the caller
  f_puts,        \* history: fput() calls of this call
  f_diag,        \* history: the 5-second pr_info of line 245 was printed
  kill_held      \* history: the kill switch has held at every moment since the
                 \* entry of each call in progress (of the last call, if none is)

syncVars == <<sync_seq, sync_mutex, pc, snap, snap_done, ret, path, warned,
              ncalls, started, donePasses, myPass, passes, snapStarted,
              snapDone>>

rangeVars == <<dyn_fsync_active, early_suspend_active, pgoff32, rpc, r_entry,
               r_fd, r_offset, r_nbytes, r_flags, r_endbyte, r_ret, r_returned,
               r_arg_nbytes, r_short, r_trace, r_refs, r_lookups>>

volVars == <<sb_kind, vfs_emergency_remount, vpc, v_entry, v_fd, v_wait, v_i,
             v_ret, v_returned, v_trace, v_refs, v_lock, v_puts, v_ups,
             v_woken, v_warned>>

workVars == <<e_calls, e_failed, work_queue, wpc, w_pass, w_i, w_trace,
              w_started, w_reports>>

fileVars == <<fpc, f_entry, f_fd, f_oflags, f_isync, f_pos, f_count, f_datasync,
              f_start, f_end, f_ret, f_returned, f_short, f_calls, f_refs,
              f_puts, f_diag>>

restVars == <<volVars, workVars, fileVars, kill_held>>

vars == <<syncVars, rangeVars, restVars>>

\* ----------------------------------------------------------- sync(): helpers

\* unsigned long addition
SeqAdd(a, b) == (a + b) % SeqMod

\* unsigned long subtraction
SeqSub(a, b) == (a - b + SeqMod) % SeqMod

\* x & ~0x1
ClearBit0(x) == x - (x % 2)

\* rcupdate.h: #define ULONG_CMP_GE(a, b) (ULONG_MAX / 2 >= (a) - (b))
ULONG_CMP_GE(a, b) == (ULONG_MAX \div 2) >= SeqSub(a, b)

\* (snap + 3) & ~0x1
SyncThreshold_Plus2(s) == ClearBit0(SeqAdd(s, 2))
SyncThreshold_Plus5(s) == ClearBit0(SeqAdd(s, 5))
SyncThreshold(s) == ClearBit0(SeqAdd(s, 3))

\* line 119: ULONG_CMP_GE(snap_done, (snap + 3) & ~0x1)
CoalesceTest_Plain(sd, s) == sd >= SyncThreshold(s)
CoalesceTest(sd, s) == ULONG_CMP_GE(sd, SyncThreshold(s))

\* ACCESS_ONCE(sync_seq)++
SeqInc_Skip(x) == SeqAdd(x, 2)
SeqInc(x) == SeqAdd(x, 1)

\* mutex_lock() can proceed
MutexFree_Always == TRUE
MutexFree == sync_mutex = NoOwner

\* sync_seq after any number of earlier, completed sync() calls: an even value
SeqStart == {0, SeqMod - 2}

SyncInit ==
  /\ sync_seq \in SeqStart
  /\ sync_mutex = NoOwner
  /\ pc = [t \in Threads |-> "idle"]
  /\ snap = [t \in Threads |-> 0]
  /\ snap_done = [t \in Threads |-> 0]
  /\ ret = [t \in Threads |-> NoValue]
  /\ path = [t \in Threads |-> "none"]
  /\ warned = FALSE
  /\ ncalls = 0
  /\ started = 0
  /\ donePasses = {}
  /\ myPass = [t \in Threads |-> 0]
  /\ passes = [t \in Threads |-> 0]
  /\ snapStarted = [t \in Threads |-> 0]
  /\ snapDone = [t \in Threads |-> 0]

\* ----------------------------------------------------------- sync(): steps

\* line 104: snap = ACCESS_ONCE(sync_seq), read without the mutex
Snapshot(t) ==
  /\ pc[t] = "idle"
  /\ ncalls < MaxCalls
  /\ ncalls' = ncalls + 1
  /\ snap' = [snap EXCEPT ![t] = sync_seq]
  /\ snapStarted' = [snapStarted EXCEPT ![t] = started]
  /\ snapDone' = [snapDone EXCEPT ![t] = Cardinality(donePasses)]
  /\ passes' = [passes EXCEPT ![t] = 0]
  /\ ret' = [ret EXCEPT ![t] = NoValue]
  /\ path' = [path EXCEPT ![t] = "none"]
  /\ pc' = [pc EXCEPT ![t] = "lock"]
  /\ UNCHANGED <<sync_seq, sync_mutex, snap_done, warned, started, donePasses,
                 myPass>>

\* line 106: mutex_lock(&sync_mutex)
MutexLock(t) ==
  /\ pc[t] = "lock"
  /\ MutexFree
  /\ sync_mutex' = t
  /\ pc' = [pc EXCEPT ![t] = "read"]
  /\ UNCHANGED <<sync_seq, snap, snap_done, ret, path, warned, ncalls, started,
                 donePasses, myPass, passes, snapStarted, snapDone>>

\* line 107: snap_done = sync_seq
ReadSnapDone(t) ==
  /\ pc[t] = "read"
  /\ snap_done' = [snap_done EXCEPT ![t] = sync_seq]
  /\ pc' = [pc EXCEPT ![t] = "test"]
  /\ UNCHANGED <<sync_seq, sync_mutex, snap, ret, path, warned, ncalls, started,
                 donePasses, myPass, passes, snapStarted, snapDone>>

\* mutex_unlock(&sync_mutex) by caller t
Unlocked(t) == IF sync_mutex = t THEN NoOwner ELSE sync_mutex

\* lines 119-126: the coalescing test succeeds: unlock and return 0
EarlyReturn_KeepLock(t) ==
  /\ pc[t] = "test"
  /\ CoalesceTest(snap_done[t], snap[t])
  /\ ret' = [ret EXCEPT ![t] = 0]
  /\ path' = [path EXCEPT ![t] = "early"]
  /\ pc' = [pc EXCEPT ![t] = "idle"]
  /\ snap' = [snap EXCEPT ![t] = 0]
  /\ snap_done' = [snap_done EXCEPT ![t] = 0]
  /\ UNCHANGED <<sync_seq, sync_mutex, warned, ncalls, started,
                 donePasses, myPass, passes, snapStarted, snapDone>>
EarlyReturn(t) ==
  /\ pc[t] = "test"
  /\ CoalesceTest(snap_done[t], snap[t])
  /\ sync_mutex' = Unlocked(t)
  /\ ret' = [ret EXCEPT ![t] = 0]
  /\ path' = [path EXCEPT ![t] = "early"]
  /\ pc' = [pc EXCEPT ![t] = "idle"]
  /\ snap' = [snap EXCEPT ![t] = 0]
  /\ snap_done' = [snap_done EXCEPT ![t] = 0]
  /\ UNCHANGED <<sync_seq, warned, ncalls, started,
                 donePasses, myPass, passes, snapStarted, snapDone>>

\* lines 119, 130-131: the test fails: record the start of do_sync()
RecordStart(t) ==
  /\ pc[t] = "test"
  /\ ~CoalesceTest(snap_done[t], snap[t])
  /\ sync_seq' = SeqInc(sync_seq)
  /\ warned' = (warned \/ (sync_seq' % 2) # 1)
  /\ pc' = [pc EXCEPT ![t] = "call_do_sync"]
  /\ UNCHANGED <<sync_mutex, snap, snap_done, ret, path, ncalls, started,
                 donePasses, myPass, passes, snapStarted, snapDone>>

\* line 134: do_sync() is entered: a full-flush pass starts
DoSyncBegin(t) ==
  /\ pc[t] = "call_do_sync"
  /\ started' = started + 1
  /\ myPass' = [myPass EXCEPT ![t] = started + 1]
  /\ passes' = [passes EXCEPT ![t] = passes[t] + 1]
  /\ pc' = [pc EXCEPT ![t] = "in_do_sync"]
  /\ UNCHANGED <<sync_seq, sync_mutex, snap, snap_done, ret, path, warned, ncalls,
                 donePasses, snapStarted, snapDone>>

\* lines 78-88: do_sync() returns: the pass has run to completion
DoSyncEnd(t) ==
  /\ pc[t] = "in_do_sync"
  /\ donePasses' = donePasses \cup {myPass[t]}
  /\ myPass' = [myPass EXCEPT ![t] = 0]
  /\ pc' = [pc EXCEPT ![t] = "record_end"]
  /\ UNCHANGED <<sync_seq, sync_mutex, snap, snap_done, ret, path, warned, ncalls,
                 started, passes, snapStarted, snapDone>>

\* lines 137-139: record the end of do_sync()
RecordEnd(t) ==
  /\ pc[t] = "record_end"
  /\ sync_seq' = SeqInc(sync_seq)
  /\ warned' = (warned \/ (sync_seq' % 2) # 0)
  /\ pc' = [pc EXCEPT ![t] = "unlock"]
  /\ UNCHANGED <<sync_mutex, snap, snap_done, ret, path, ncalls, started,
                 donePasses, myPass, passes, snapStarted, snapDone>>

\* lines 140-141: mutex_unlock(&sync_mutex); return 0
UnlockReturn_Again(t) ==
  /\ pc[t] = "unlock"
  /\ pc' = [pc EXCEPT ![t] = "test"]
  /\ UNCHANGED <<sync_seq, sync_mutex, snap, snap_done, ret, path, warned, ncalls,
                 started, donePasses, myPass, passes, snapStarted, snapDone>>
UnlockReturn(t) ==
  /\ pc[t] = "unlock"
  /\ sync_mutex' = Unlocked(t)
  /\ ret' = [ret EXCEPT ![t] = 0]
  /\ path' = [path EXCEPT ![t] = "full"]
  /\ pc' = [pc EXCEPT ![t] = "idle"]
  /\ snap' = [snap EXCEPT ![t] = 0]
  /\ snap_done' = [snap_done EXCEPT ![t] = 0]
  /\ UNCHANGED <<sync_seq, warned, ncalls, started, donePasses,
                 myPass, passes, snapStarted, snapDone>>

\* ------------------------------------------------- sync_file_range: helpers

EINVAL == 22
EBADF == 9
ESPIPE == 29
EIO == 5
ENOSPC == 28

LoffMod == Pow2(LoffBits)
LLONG_MAX == Pow2(LoffBits - 1) - 1
LLONG_MIN == 0 - Pow2(LoffBits - 1)

\* a loff_t result, wrapped into the signed range
WrapLoff(x) == ((x - LLONG_MIN + LoffMod) % LoffMod) + LLONG_MIN

\* 0x100000000ULL << PAGE_CACHE_SHIFT, scaled to the model's loff_t
PgoffLimit == Pow2(LoffBits - 2)

\* lines 23-24
VALID_FLAGS == {"WAIT_BEFORE", "WRITE", "WAIT_AFTER"}

\* the descriptors a caller may pass and what each resolves to
Fds == {"fd_closed", "fd_reg", "fd_dir", "fd_blk", "fd_lnk", "fd_fifo",
        "fd_sock", "fd_nomap"}

\* fget_light(fd) != NULL
Resolves(fd) == fd # "fd_closed"

\* file->f_path.dentry->d_inode->i_mode & S_IFMT
i_mode(fd) ==
  CASE fd = "fd_reg" -> "S_IFREG"
    [] fd = "fd_nomap" -> "S_IFREG"
    [] fd = "fd_dir" -> "S_IFDIR"
    [] fd = "fd_blk" -> "S_IFBLK"
    [] fd = "fd_lnk" -> "S_IFLNK"
    [] fd = "fd_fifo" -> "S_IFIFO"
    [] fd = "fd_sock" -> "S_IFSOCK"
    [] OTHER -> "none"

\* file->f_mapping != NULL
HasMapping(fd) == fd # "fd_nomap"

\* lines 330-331: !S_ISREG && !S_ISBLK && !S_ISDIR && !S_ISLNK
NotSeekable_FifoOk(m) ==
  m \notin {"S_IFREG", "S_IFBLK", "S_IFDIR", "S_IFLNK", "S_IFIFO"}
NotSeekable(m) == m \notin {"S_IFREG", "S_IFBLK", "S_IFDIR", "S_IFLNK"}

\* argument values: the boundaries of every comparison of lines 296-321
Offsets == {LLONG_MIN, -1, 0, 1, PgoffLimit - 1, PgoffLimit, LLONG_MAX - 5, LLONG_MAX}
Lengths == {LLONG_MIN, -1, 0, 1, 10, 100, PgoffLimit, LLONG_MAX}
FlagSets == (SUBSET VALID_FLAGS) \cup {{"INVALID"}, {"WRITE", "INVALID"}}

\* results of filemap_fdatawait_range / filemap_fdatawrite_range: 0 or -errno
PhaseResults == {0, 0 - EIO, 0 - ENOSPC}

\* lines 19-20, 198: dyn_fsync_active && !early_suspend_active
KillSwitch == dyn_fsync_active /\ ~early_suspend_active

\* line 296: flags & ~VALID_FLAGS
BadFlags(flags) == flags \ VALID_FLAGS # {}

\* line 299: endbyte = offset + nbytes
EndByte(offset, nbytes) == WrapLoff(offset + nbytes)

\* lines 301-306
BadRange_NoOrderCheck(offset, endbyte) == offset < 0 \/ endbyte < 0
BadRange(offset, endbyte) == offset < 0 \/ endbyte < 0 \/ endbyte < offset

\* lines 308-312: the offset lies past a 32-bit page index
PastDomain_Never(offset) == pgoff32 /\ offset > LLONG_MAX
PastDomain(offset) == pgoff32 /\ offset >= PgoffLimit

\* lines 313-315: nbytes after the clamp
ClampedNbytes(nbytes, endbyte) ==
  IF pgoff32 /\ endbyte >= PgoffLimit THEN 0 ELSE nbytes

\* lines 318-321: the inclusive end handed to the phases
LastByte_NoDec(nbytes, endbyte) == IF nbytes = 0 THEN LLONG_MAX ELSE endbyte
LastByte(nbytes, endbyte) == IF nbytes = 0 THEN LLONG_MAX ELSE endbyte - 1

RangeInit ==
  /\ dyn_fsync_active = FALSE
  /\ early_suspend_active = FALSE
  /\ pgoff32 \in BOOLEAN
  /\ rpc = "idle"
  /\ r_entry = "none"
  /\ r_fd = "fd_closed"
  /\ r_offset = 0
  /\ r_nbytes = 0
  /\ r_flags = {}
  /\ r_endbyte = 0
  /\ r_ret = 0
  /\ r_returned = FALSE
  /\ r_arg_nbytes = 0
  /\ r_short = FALSE
  /\ r_trace = <<>>
  /\ r_refs = 0
  /\ r_lookups = 0

\* --------------------------------------------------- sync_file_range: steps

\* dyn_fsync_active is set or cleared from outside this file
ToggleDynFsync ==
  /\ dyn_fsync_active' = ~dyn_fsync_active
  /\ UNCHANGED <<early_suspend_active, pgoff32, rpc, r_entry, r_fd, r_offset,
                 r_nbytes, r_flags, r_endbyte, r_ret, r_returned, r_arg_nbytes,
                 r_short, r_trace, r_refs, r_lookups>>

\* early_suspend_active is set or cleared from outside this file
ToggleEarlySuspend ==
  /\ early_suspend_active' = ~early_suspend_active
  /\ UNCHANGED <<dyn_fsync_active, pgoff32, rpc, r_entry, r_fd, r_offset,
                 r_nbytes, r_flags, r_endbyte, r_ret, r_returned, r_arg_nbytes,
                 r_short, r_trace, r_refs, r_lookups>>

\* the return statement: ret is the result
SfrReturn(v, short) ==
  /\ r_ret' = v
  /\ r_short' = short
  /\ r_returned' = TRUE
  /\ rpc' = "done"

\* the caller goes on after the call: the arguments and locals are gone
SfrForget ==
  /\ rpc = "done"
  /\ rpc' = "idle"
  /\ r_entry' = "none"
  /\ r_fd' = "fd_closed"
  /\ r_offset' = 0
  /\ r_nbytes' = 0
  /\ r_flags' = {}
  /\ r_endbyte' = 0
  /\ r_ret' = 0
  /\ r_returned' = FALSE
  /\ r_arg_nbytes' = 0
  /\ r_short' = FALSE
  /\ r_trace' = <<>>
  /\ r_lookups' = 0
  /\ UNCHANGED <<dyn_fsync_active, early_suspend_active, pgoff32, r_refs>>

\* a caller enters sync_file_range (line 279) or sync_file_range2 (line 374)
\* with arguments from the given sets
SfrCallWith(fds, offsets, lengths, flagsets) ==
  /\ rpc = "idle"
  /\ \E e \in {"sync_file_range", "sync_file_range2"}, fd \in fds,
        offset \in offsets, nbytes \in lengths, flags \in flagsets :
       /\ r_entry' = e
       /\ r_fd' = fd
       /\ r_offset' = offset
       /\ r_nbytes' = nbytes
       /\ r_arg_nbytes' = nbytes
       /\ r_flags' = flags
       /\ rpc' = IF e = "sync_file_range2" THEN "entry2" ELSE "entry"
  /\ r_endbyte' = 0
  /\ r_ret' = 0
  /\ r_returned' = FALSE
  /\ r_short' = FALSE
  /\ r_trace' = <<>>
  /\ r_lookups' = 0
  /\ UNCHANGED <<dyn_fsync_active, early_suspend_active, pgoff32, r_refs>>

\* a caller enters with any of the boundary arguments
SfrCall == SfrCallWith(Fds, Offsets, Lengths, FlagSets)

\* lines 374-383: sync_file_range2 tests the kill switch, then calls
\* sys_sync_file_range with the arguments reordered
SyncFileRange2 ==
  /\ rpc = "entry2"
  /\ IF KillSwitch
       THEN SfrReturn(0, TRUE)
       ELSE /\ rpc' = "entry"
            /\ UNCHANGED <<r_ret, r_short, r_returned>>
  /\ UNCHANGED <<dyn_fsync_active, early_suspend_active, pgoff32, r_entry, r_fd,
                 r_offset, r_nbytes, r_flags, r_endbyte, r_arg_nbytes, r_trace,
                 r_refs, r_lookups>>

\* lines 282-321: the kill switch, the argument checks and the normalisation
SfrValidate ==
  /\ rpc = "entry"
  /\ LET endbyte == EndByte(r_offset, r_nbytes)
         nbytes == ClampedNbytes(r_nbytes, endbyte)
     IN  IF KillSwitch
           THEN SfrReturn(0, TRUE) /\ UNCHANGED <<r_nbytes, r_endbyte>>
         ELSE IF BadFlags(r_flags)
           THEN SfrReturn(0 - EINVAL, FALSE) /\ UNCHANGED <<r_nbytes, r_endbyte>>
         ELSE IF BadRange(r_offset, endbyte)
           THEN /\ SfrReturn(0 - EINVAL, FALSE)
                /\ r_endbyte' = endbyte
                /\ UNCHANGED r_nbytes
         ELSE IF PastDomain(r_offset)
           THEN /\ SfrReturn(0, FALSE)
                /\ r_endbyte' = endbyte
                /\ UNCHANGED r_nbytes
         ELSE /\ r_nbytes' = nbytes
              /\ r_endbyte' = LastByte(nbytes, endbyte)
              /\ r_ret' = 0 - EBADF
              /\ rpc' = "fget"
              /\ UNCHANGED <<r_short, r_returned>>
  /\ UNCHANGED <<dyn_fsync_active, early_suspend_active, pgoff32, r_entry, r_fd,
                 r_offset, r_flags, r_arg_nbytes, r_trace, r_refs, r_lookups>>

\* lines 323-340: resolve the descriptor, test the object kind and the mapping
SfrResolve ==
  /\ rpc = "fget"
  /\ r_lookups' = r_lookups + 1
  /\ IF ~Resolves(r_fd)
       THEN SfrReturn(0 - EBADF, FALSE) /\ UNCHANGED r_refs
     ELSE IF NotSeekable(i_mode(r_fd))
       THEN /\ r_refs' = r_refs + 1
            /\ r_ret' = 0 - ESPIPE
            /\ rpc' = "out_put"
            /\ UNCHANGED <<r_short, r_returned>>
     ELSE IF ~HasMapping(r_fd)
       THEN /\ r_refs' = r_refs + 1
            /\ r_ret' = 0 - EINVAL
            /\ rpc' = "out_put"
            /\ UNCHANGED <<r_short, r_returned>>
     ELSE /\ r_refs' = r_refs + 1
          /\ r_ret' = 0
          /\ rpc' = "wait_before"
          /\ UNCHANGED <<r_short, r_returned>>
  /\ UNCHANGED <<dyn_fsync_active, early_suspend_active, pgoff32, r_entry, r_fd,
                 r_offset, r_nbytes, r_flags, r_endbyte, r_arg_nbytes, r_trace>>

\* one call of filemap_fdatawait_range / filemap_fdatawrite_range on the mapping
PhaseCall(kind, res) ==
  [kind |-> kind, start |-> r_offset, end |-> r_endbyte, res |-> res]

\* where a phase goes when its result is res: "if (ret < 0) goto out_put"
AfterPhase_Ignore(res, next) == next
AfterPhase(res, next) == IF res < 0 THEN "out_put" ELSE next

\* lines 341-345: SYNC_FILE_RANGE_WAIT_BEFORE
SfrWaitBefore ==
  /\ rpc = "wait_before"
  /\ IF "WAIT_BEFORE" \in r_flags
       THEN \E res \in PhaseResults :
              /\ r_trace' = Append(r_trace, PhaseCall("wait", res))
              /\ r_ret' = res
              /\ rpc' = AfterPhase(res, "write")
       ELSE /\ rpc' = "write"
            /\ UNCHANGED <<r_trace, r_ret>>
  /\ UNCHANGED <<dyn_fsync_active, early_suspend_active, pgoff32, r_entry, r_fd,
                 r_offset, r_nbytes, r_flags, r_endbyte, r_returned, r_arg_nbytes,
                 r_short, r_refs, r_lookups>>

\* lines 347-351: SYNC_FILE_RANGE_WRITE
SfrWrite ==
  /\ rpc = "write"
  /\ IF "WRITE" \in r_flags
       THEN \E res \in PhaseResults :
              /\ r_trace' = Append(r_trace, PhaseCall("write", res))
              /\ r_ret' = res
              /\ rpc' = AfterPhase(res, "wait_after")
       ELSE /\ rpc' = "wait_after"
            /\ UNCHANGED <<r_trace, r_ret>>
  /\ UNCHANGED <<dyn_fsync_active, early_suspend_active, pgoff32, r_entry, r_fd,
                 r_offset, r_nbytes, r_flags, r_endbyte, r_returned, r_arg_nbytes,
                 r_short, r_refs, r_lookups>>

\* lines 353-354: SYNC_FILE_RANGE_WAIT_AFTER
SfrWaitAfter_DropResult ==
  /\ rpc = "wait_after"
  /\ IF "WAIT_AFTER" \in r_flags
       THEN \E res \in PhaseResults :
              /\ r_trace' = Append(r_trace, PhaseCall("wait", res))
              /\ UNCHANGED r_ret
       ELSE UNCHANGED <<r_trace, r_ret>>
  /\ rpc' = "out_put"
  /\ UNCHANGED <<dyn_fsync_active, early_suspend_active, pgoff32, r_entry, r_fd,
                 r_offset, r_nbytes, r_flags, r_endbyte, r_returned, r_arg_nbytes,
                 r_short, r_refs, r_lookups>>
SfrWaitAfter ==
  /\ rpc = "wait_after"
  /\ IF "WAIT_AFTER" \in r_flags
       THEN \E res \in PhaseResults :
              /\ r_trace' = Append(r_trace, PhaseCall("wait", res))
              /\ r_ret' = res
       ELSE UNCHANGED <<r_trace, r_ret>>
  /\ rpc' = "out_put"
  /\ UNCHANGED <<dyn_fsync_active, early_suspend_active, pgoff32, r_entry, r_fd,
                 r_offset, r_nbytes, r_flags, r_endbyte, r_returned, r_arg_nbytes,
                 r_short, r_refs, r_lookups>>

\* lines 356-359: out_put: fput_light(file, fput_needed); return ret
SfrOutPut ==
  /\ rpc = "out_put"
  /\ r_refs' = r_refs - 1
  /\ SfrReturn(r_ret, FALSE)
  /\ UNCHANGED <<dyn_fsync_active, early_suspend_active, pgoff32, r_entry, r_fd,
                 r_offset, r_nbytes, r_flags, r_endbyte, r_arg_nbytes, r_trace,
                 r_lookups>>

\* ------------------------------------ fsync, fdatasync, generic_write_sync

\* fput(file) / fput_light(file, fput_needed): the reference is given back
PutRef_Leak(refs) == refs
PutRef(refs) == refs - 1

\* the descriptors a caller may pass to fsync / fdatasync: not open, a file
\* with an fsync method, a file without one
FsyncFds == {"fd_closed", "fd_reg", "fd_nofsync"}

\* line 202: file->f_op && file->f_op->fsync
HasFsync_Always(fd) == TRUE
HasFsync(fd) == fd # "fd_nofsync"

\* results of file->f_op->fsync: 0 or -errno
FsyncResults == {0, 0 - EIO, 0 - ENOSPC}

\* arguments of generic_write_sync
WritePositions == {0, 10, LLONG_MAX}
WriteCounts == {1, 10}
OpenFlags == SUBSET {"O_DSYNC", "__O_SYNC"}

FileInit ==
  /\ fpc = "idle"
  /\ f_entry = "none"
  /\ f_fd = "fd_closed"
  /\ f_oflags = {}
  /\ f_isync = FALSE
  /\ f_pos = 0
  /\ f_count = 0
  /\ f_datasync = FALSE
  /\ f_start = 0
  /\ f_end = 0
  /\ f_ret = 0
  /\ f_returned = FALSE
  /\ f_short = FALSE
  /\ f_calls = <<>>
  /\ f_refs = 0
  /\ f_puts = 0
  /\ f_diag = FALSE

\* the return statement
FileReturn(v) ==
  /\ f_ret' = v
  /\ f_returned' = TRUE
  /\ fpc' = "done"

\* the caller goes on after the call: the arguments and locals are gone
FileForget ==
  /\ fpc = "done"
  /\ fpc' = "idle"
  /\ f_entry' = "none"
  /\ f_fd' = "fd_closed"
  /\ f_oflags' = {}
  /\ f_isync' = FALSE
  /\ f_pos' = 0
  /\ f_count' = 0
  /\ f_datasync' = FALSE
  /\ f_start' = 0
  /\ f_end' = 0
  /\ f_ret' = 0
  /\ f_returned' = FALSE
  /\ f_short' = FALSE
  /\ f_calls' = <<>>
  /\ f_puts' = 0
  /\ f_diag' = FALSE
  /\ UNCHANGED f_refs

\* a caller enters fsync(fd) (line 250) or fdatasync(fd) (line 260)
FsyncCall ==
  /\ fpc = "idle"
  /\ \E e \in {"fsync", "fdatasync"}, fd \in FsyncFds :
       /\ f_entry' = e
       /\ f_fd' = fd
       /\ fpc' = e
  /\ f_returned' = FALSE
  /\ UNCHANGED <<f_oflags, f_isync, f_pos, f_count, f_datasync, f_start, f_end,
                 f_ret, f_short, f_calls, f_refs, f_puts, f_diag>>

\* lines 250-258: fsync tests the kill switch, then calls do_fsync(fd, 0)
Fsync_NoSwitch ==
  /\ fpc = "fsync"
  /\ f_datasync' = FALSE
  /\ fpc' = "fget"
  /\ UNCHANGED <<f_ret, f_returned, f_short>>
  /\ UNCHANGED <<f_entry, f_fd, f_oflags, f_isync, f_pos, f_count, f_start,
                 f_end, f_calls, f_refs, f_puts, f_diag>>
Fsync ==
  /\ fpc = "fsync"
  /\ IF KillSwitch
       THEN /\ FileReturn(0)
            /\ f_short' = TRUE
            /\ UNCHANGED f_datasync
       ELSE /\ f_datasync' = FALSE
            /\ fpc' = "fget"
            /\ UNCHANGED <<f_ret, f_returned, f_short>>
  /\ UNCHANGED <<f_entry, f_fd, f_oflags, f_isync, f_pos, f_count, f_start,
                 f_end, f_calls, f_refs, f_puts, f_diag>>

\* lines 260-268: fdatasync calls do_fsync(fd, 1); its test of the kill
\* switch is compiled out (#if 0)
Fdatasync ==
  /\ fpc = "fdatasync"
  /\ f_datasync' = TRUE
  /\ fpc' = "fget"
  /\ UNCHANGED <<f_entry, f_fd, f_oflags, f_isync, f_pos, f_count, f_start,
                 f_end, f_ret, f_returned, f_short, f_calls, f_refs, f_puts,
                 f_diag>>

\* lines 228-240: ret = -EBADF; file = fget(fd); without a file ret is returned
DoFsyncFget ==
  /\ fpc = "fget"
  /\ IF Resolves(f_fd)
       THEN /\ f_refs' = f_refs + 1
            /\ f_ret' = 0 - EBADF
            /\ fpc' = "vfs_fsync"
            /\ UNCHANGED f_returned
       ELSE /\ FileReturn(0 - EBADF)
            /\ UNCHANGED f_refs
  /\ UNCHANGED <<f_entry, f_fd, f_oflags, f_isync, f_pos, f_count, f_datasync,
                 f_start, f_end, f_short, f_calls, f_puts, f_diag>>

\* lines 222-225: vfs_fsync calls vfs_fsync_range(file, 0, LLONG_MAX, datasync)
VfsFsync ==
  /\ fpc = "vfs_fsync"
  /\ f_start' = 0
  /\ f_end' = LLONG_MAX
  /\ fpc' = "vfs_fsync_range"
  /\ UNCHANGED <<f_entry, f_fd, f_oflags, f_isync, f_pos, f_count, f_datasync,
                 f_ret, f_returned, f_short, f_calls, f_refs, f_puts, f_diag>>

\* lines 194-211: vfs_fsync_range; it returns to do_fsync (line 241) or is
\* the result of generic_write_sync (line 274)
VfsFsyncRange ==
  /\ fpc = "vfs_fsync_range"
  /\ IF KillSwitch
       THEN /\ f_ret' = 0
            /\ f_short' = TRUE
            /\ UNCHANGED f_calls
     ELSE IF ~HasFsync(f_fd)
       THEN /\ f_ret' = 0 - EINVAL
            /\ UNCHANGED <<f_short, f_calls>>
     ELSE \E res \in FsyncResults :
            /\ f_calls' = Append(f_calls, [start |-> f_start, end |-> f_end,
                                           datasync |-> f_datasync, res |-> res])
            /\ f_ret' = res
            /\ UNCHANGED f_short
  /\ IF f_entry = "generic_write_sync"
       THEN f_returned' = TRUE /\ fpc' = "done"
       ELSE fpc' = "fput" /\ UNCHANGED f_returned
  /\ UNCHANGED <<f_entry, f_fd, f_oflags, f_isync, f_pos, f_count, f_datasync,
                 f_start, f_end, f_refs, f_puts, f_diag>>

\* lines 242-247: fput(file); the pr_info if the call took 5 seconds or
\* more; return ret
DoFsyncFput ==
  /\ fpc = "fput"
  /\ f_refs' = PutRef(f_refs)
  /\ f_puts' = f_puts + 1
  /\ \E slow \in BOOLEAN : f_diag' = slow
  /\ FileReturn(f_ret)
  /\ UNCHANGED <<f_entry, f_fd, f_oflags, f_isync, f_pos, f_count, f_datasync,
                 f_start, f_end, f_short, f_calls>>

\* a write has completed: generic_write_sync(file, pos, count) is entered
\* (line 270)
GwsCall ==
  /\ fpc = "idle"
  /\ \E file \in FsyncFds \ {"fd_closed"}, oflags \in OpenFlags,
        isync \in BOOLEAN, pos \in WritePositions, count \in WriteCounts :
       /\ f_fd' = file
       /\ f_oflags' = oflags
       /\ f_isync' = isync
       /\ f_pos' = pos
       /\ f_count' = count
  /\ f_entry' = "generic_write_sync"
  /\ fpc' = "gws"
  /\ f_returned' = FALSE
  /\ UNCHANGED <<f_datasync, f_start, f_end, f_ret, f_short, f_calls, f_refs,
                 f_puts, f_diag>>

\* lines 270-276: generic_write_sync
GenericWriteSync ==
  /\ fpc = "gws"
  /\ IF "O_DSYNC" \notin f_oflags /\ ~f_isync
       THEN /\ FileReturn(0)
            /\ UNCHANGED <<f_start, f_end, f_datasync>>
       ELSE /\ f_start' = f_pos
            /\ f_end' = WrapLoff(f_pos + f_count - 1)
            /\ f_datasync' = ("__O_SYNC" \notin f_oflags)
            /\ fpc' = "vfs_fsync_range"
            /\ UNCHANGED <<f_ret, f_returned>>
  /\ UNCHANGED <<f_entry, f_fd, f_oflags, f_isync, f_pos, f_count, f_short,
                 f_calls, f_refs, f_puts, f_diag>>

\* ------------------------------------------- flushing super blocks: helpers

\* what is mounted on a super block: "ro" is mounted read-only, "noop" has
\* the no-op backing device, "plain" has neither a quota_sync nor a sync_fs
\* hook, "full" has both
SbKinds == {"ro", "noop", "plain", "full"}

\* sb->s_flags & MS_RDONLY
MS_RDONLY(sb) == sb_kind[sb] = "ro"

\* line 28: sb->s_bdi == &noop_backing_dev_info
NoopBdi(sb) == sb_kind[sb] = "noop"

\* line 31: sb->s_qcop && sb->s_qcop->quota_sync
HasQuotaSync(sb) == sb_kind[sb] = "full"

\* line 39: sb->s_op->sync_fs
HasSyncFs(sb) == sb_kind[sb] = "full"

\* results of quota_sync, sync_fs and __sync_blockdev: 0 or -errno
FlushResults == {0, 0 - EIO}

\* lines 28-41: the steps one __sync_filesystem(sb, wait) call attempts, in
\* order; qres is what quota_sync returned
SyncFsSteps_StopOnError(sb, wait, qres) ==
  IF NoopBdi(sb)
    THEN <<>>
  ELSE IF HasQuotaSync(sb) /\ qres < 0
    THEN <<"quota_sync">>
  ELSE (IF HasQuotaSync(sb) THEN <<"quota_sync">> ELSE <<>>)
         \o <<IF wait THEN "sync_inodes_sb" ELSE "writeback_inodes_sb">>
         \o (IF HasSyncFs(sb) THEN <<"sync_fs">> ELSE <<>>)
         \o <<"__sync_blockdev">>
SyncFsSteps(sb, wait, qres) ==
  IF NoopBdi(sb)
    THEN <<>>
    ELSE (IF HasQuotaSync(sb) THEN <<"quota_sync">> ELSE <<>>)
           \o <<IF wait THEN "sync_inodes_sb" ELSE "writeback_inodes_sb">>
           \o (IF HasSyncFs(sb) THEN <<"sync_fs">> ELSE <<>>)
           \o <<"__sync_blockdev">>

\* lines 26-42: one call __sync_filesystem(sb, wait), given what quota_sync,
\* sync_fs and __sync_blockdev return: the steps attempted, whether a step
\* before the block-device flush failed, what the block-device flush
\* returned (0 if it was not attempted), and the result
SyncFilesystemPass(sb, wait, qres, sres, bres) ==
  [sb |-> sb,
   wait |-> wait,
   steps |-> SyncFsSteps(sb, wait, qres),
   early |-> (HasQuotaSync(sb) /\ qres < 0) \/ (HasSyncFs(sb) /\ sres < 0),
   bdev |-> IF NoopBdi(sb) THEN 0 ELSE bres,
   ret |-> IF NoopBdi(sb) THEN 0 ELSE bres]

\* lines 64-76: iterate_supers() goes on to the next super block whatever
\* the call on this one returned (sync_one_sb returns nothing)
NextSb_StopOnError(i, r) == IF r < 0 THEN NumVolumes + 1 ELSE i + 1
NextSb(i, r) == i + 1

\* line 53: the first pass of sync_filesystem() waits during an emergency remount
FirstPassWait(emergency) == emergency

\* lines 58-60: the second pass runs unless the first one failed
SecondPass_Always(r) == TRUE
SecondPass(r) == ~(r < 0)

\* lines 146-147: both sweeps of do_sync_work() pass wait = 0
WorkWait_Second(pass) == pass = 2
WorkWait(pass) == FALSE

\* fget_light(fd): descriptor 0 is not open, descriptor v is a file on volume v
SyncfsFds == 0..NumVolumes
FdResolves(fd) == fd \in Volumes

VolInit ==
  /\ sb_kind \in [Volumes -> SbKinds]
  /\ vfs_emergency_remount = FALSE
  /\ vpc = "idle"
  /\ v_entry = "none"
  /\ v_fd = 0
  /\ v_wait = FALSE
  /\ v_i = 0
  /\ v_ret = 0
  /\ v_returned = FALSE
  /\ v_trace = <<>>
  /\ v_refs = 0
  /\ v_lock = 0
  /\ v_puts = 0
  /\ v_ups = 0
  /\ v_woken = FALSE
  /\ v_warned = FALSE

WorkInit ==
  /\ e_calls = 0
  /\ e_failed = 0
  /\ work_queue = 0
  /\ wpc = "idle"
  /\ w_pass = 0
  /\ w_i = 0
  /\ w_trace = <<>>
  /\ w_started = 0
  /\ w_reports = 0

\* the part of the state the callers of sync() and sync_file_range leave alone
RestInit ==
  /\ VolInit
  /\ WorkInit
  /\ FileInit
  /\ kill_held = FALSE
  /\ sb_kind = [v \in Volumes |-> "full"]

\* --------------------------------------------- flushing super blocks: steps

\* vfs_emergency_remount is set or cleared from outside this file
ToggleEmergencyRemount ==
  /\ vfs_emergency_remount' = ~vfs_emergency_remount
  /\ UNCHANGED <<sb_kind, vpc, v_entry, v_fd, v_wait, v_i, v_ret, v_returned,
                 v_trace, v_refs, v_lock, v_puts, v_ups, v_woken, v_warned>>

\* the return statement: ret is the result
VolReturn(v) ==
  /\ v_ret' = v
  /\ v_returned' = TRUE
  /\ vpc' = "done"

\* the caller goes on after the call: the arguments and locals are gone
VolForget ==
  /\ vpc = "done"
  /\ vpc' = "idle"
  /\ v_entry' = "none"
  /\ v_fd' = 0
  /\ v_wait' = FALSE
  /\ v_i' = 0
  /\ v_ret' = 0
  /\ v_returned' = FALSE
  /\ v_trace' = <<>>
  /\ v_puts' = 0
  /\ v_ups' = 0
  /\ v_woken' = FALSE
  /\ v_warned' = FALSE
  /\ UNCHANGED <<sb_kind, vfs_emergency_remount, v_refs, v_lock>>

\* a caller enters do_sync() (line 78)
DoSyncCall ==
  /\ vpc = "idle"
  /\ vpc' = "ds_wakeup"
  /\ v_entry' = "do_sync"
  /\ v_returned' = FALSE
  /\ UNCHANGED <<sb_kind, vfs_emergency_remount, v_fd, v_wait, v_i, v_ret,
                 v_trace, v_refs, v_lock, v_puts, v_ups, v_woken, v_warned>>

\* lines 80-82: wakeup_flusher_threads(), then sync_filesystems(0) begins
DoSyncWakeup ==
  /\ vpc = "ds_wakeup"
  /\ v_woken' = TRUE
  /\ v_wait' = FALSE
  /\ v_i' = 1
  /\ vpc' = "ds_sweep"
  /\ UNCHANGED <<sb_kind, vfs_emergency_remount, v_entry, v_fd, v_ret,
                 v_returned, v_trace, v_refs, v_lock, v_puts, v_ups, v_warned>>

\* lines 64-68: sync_one_sb() on the super block iterate_supers() has reached
SyncOneSb ==
  /\ vpc = "ds_sweep"
  /\ v_i <= NumVolumes
  /\ IF MS_RDONLY(v_i)
       THEN /\ v_i' = v_i + 1
            /\ UNCHANGED v_trace
       ELSE \E qres \in FlushResults, sres \in FlushResults, bres \in FlushResults :
              LET call == SyncFilesystemPass(v_i, v_wait, qres, sres, bres)
              IN  /\ v_trace' = Append(v_trace, call)
                  /\ v_i' = NextSb(v_i, call.ret)
  /\ UNCHANGED <<sb_kind, vfs_emergency_remount, vpc, v_entry, v_fd, v_wait,
                 v_ret, v_returned, v_refs, v_lock, v_puts, v_ups, v_woken,
                 v_warned>>

\* lines 73-76 and 82-87: sync_filesystems() returns; after sync_filesystems(0)
\* comes sync_filesystems(1), after that do_sync() returns
SyncFilesystemsEnd ==
  /\ vpc = "ds_sweep"
  /\ v_i > NumVolumes
  /\ IF ~v_wait
       THEN /\ v_wait' = TRUE
            /\ v_i' = 1
            /\ UNCHANGED <<vpc, v_ret, v_returned>>
       ELSE /\ VolReturn(0)
            /\ UNCHANGED <<v_wait, v_i>>
  /\ UNCHANGED <<sb_kind, vfs_emergency_remount, v_entry, v_fd, v_trace,
                 v_refs, v_lock, v_puts, v_ups, v_woken, v_warned>>

\* a caller enters syncfs(fd) (line 163)
SyncfsCall ==
  /\ vpc = "idle"
  /\ \E fd \in SyncfsFds : v_fd' = fd
  /\ vpc' = "sf_fget"
  /\ v_entry' = "syncfs"
  /\ v_returned' = FALSE
  /\ UNCHANGED <<sb_kind, vfs_emergency_remount, v_wait, v_i, v_ret, v_trace,
                 v_refs, v_lock, v_puts, v_ups, v_woken, v_warned>>

\* lines 170-173: file = fget_light(fd); if (!file) return -EBADF
SyncfsFget ==
  /\ vpc = "sf_fget"
  /\ IF FdResolves(v_fd)
       THEN /\ v_refs' = v_refs + 1
            /\ vpc' = "sf_down"
            /\ UNCHANGED <<v_ret, v_returned>>
       ELSE /\ VolReturn(0 - EBADF)
            /\ UNCHANGED v_refs
  /\ UNCHANGED <<sb_kind, vfs_emergency_remount, v_entry, v_fd, v_wait, v_i,
                 v_trace, v_lock, v_puts, v_ups, v_woken, v_warned>>

\* line 175: down_read(&sb->s_umount)
SyncfsDownRead ==
  /\ vpc = "sf_down"
  /\ v_lock' = v_lock + 1
  /\ vpc' = "sf_sync"
  /\ UNCHANGED <<sb_kind, vfs_emergency_remount, v_entry, v_fd, v_wait, v_i,
                 v_ret, v_returned, v_trace, v_refs, v_puts, v_ups, v_woken,
                 v_warned>>

\* lines 44-59: sync_filesystem() up to the test of the first pass's result
SyncFilesystemFirst ==
  /\ vpc = "sf_sync"
  /\ v_warned' = (v_lock = 0)
  /\ IF MS_RDONLY(v_fd)
       THEN /\ v_ret' = 0
            /\ vpc' = "sf_up"
            /\ UNCHANGED v_trace
       ELSE \E qres \in FlushResults, sres \in FlushResults, bres \in FlushResults :
              LET call == SyncFilesystemPass(v_fd, FirstPassWait(vfs_emergency_remount),
                                             qres, sres, bres)
              IN  /\ v_trace' = Append(v_trace, call)
                  /\ v_ret' = call.ret
                  /\ vpc' = IF SecondPass(call.ret) THEN "sf_second" ELSE "sf_up"
  /\ UNCHANGED <<sb_kind, vfs_emergency_remount, v_entry, v_fd, v_wait, v_i,
                 v_returned, v_refs, v_lock, v_puts, v_ups, v_woken>>

\* line 60: return __sync_filesystem(sb, 1)
SyncFilesystemSecond ==
  /\ vpc = "sf_second"
  /\ \E qres \in FlushResults, sres \in FlushResults, bres \in FlushResults :
       LET call == SyncFilesystemPass(v_fd, TRUE, qres, sres, bres)
       IN  /\ v_trace' = Append(v_trace, call)
           /\ v_ret' = call.ret
  /\ vpc' = "sf_up"
  /\ UNCHANGED <<sb_kind, vfs_emergency_remount, v_entry, v_fd, v_wait, v_i,
                 v_returned, v_refs, v_lock, v_puts, v_ups, v_woken, v_warned>>

\* line 177: up_read(&sb->s_umount)
SyncfsUpRead ==
  /\ vpc = "sf_up"
  /\ v_lock' = v_lock - 1
  /\ v_ups' = v_ups + 1
  /\ vpc' = "sf_fput"
  /\ UNCHANGED <<sb_kind, vfs_emergency_remount, v_entry, v_fd, v_wait, v_i,
                 v_ret, v_returned, v_trace, v_refs, v_puts, v_woken, v_warned>>

\* lines 179-180: fput_light(file, fput_needed); return ret
SyncfsFput ==
  /\ vpc = "sf_fput"
  /\ v_refs' = PutRef(v_refs)
  /\ v_puts' = v_puts + 1
  /\ VolReturn(v_ret)
  /\ UNCHANGED <<sb_kind, vfs_emergency_remount, v_entry, v_fd, v_wait, v_i,
                 v_trace, v_lock, v_ups, v_woken, v_warned>>

\* ------------------------------------------------------ emergency_sync: steps

\* lines 152-161: kmalloc(GFP_ATOMIC) succeeds or not; on success the work
\* item is queued; the caller returns in either case
EmergencySync ==
  /\ e_calls < MaxEmergency
  /\ e_calls' = e_calls + 1
  /\ \E allocated \in BOOLEAN :
       IF allocated
         THEN work_queue' = work_queue + 1 /\ UNCHANGED e_failed
         ELSE e_failed' = e_failed + 1 /\ UNCHANGED work_queue
  /\ UNCHANGED <<wpc, w_pass, w_i, w_trace, w_started, w_reports>>

\* the workqueue runs a queued item: do_sync_work() is entered (line 144)
WorkStart ==
  /\ wpc = "idle"
  /\ work_queue > 0
  /\ work_queue' = work_queue - 1
  /\ w_started' = w_started + 1
  /\ wpc' = "sweep"
  /\ w_pass' = 1
  /\ w_i' = 1
  /\ w_trace' = <<>>
  /\ UNCHANGED <<e_calls, e_failed, w_reports>>

\* lines 64-68: sync_one_sb() on the super block iterate_supers() has reached
WorkSyncOneSb ==
  /\ wpc = "sweep"
  /\ w_i <= NumVolumes
  /\ IF MS_RDONLY(w_i)
       THEN /\ w_i' = w_i + 1
            /\ UNCHANGED w_trace
       ELSE \E qres \in FlushResults, sres \in FlushResults, bres \in FlushResults :
              LET call == SyncFilesystemPass(w_i, WorkWait(w_pass), qres, sres, bres)
              IN  /\ w_trace' = Append(w_trace, call)
                  /\ w_i' = NextSb(w_i, call.ret)
  /\ UNCHANGED <<e_calls, e_failed, work_queue, wpc, w_pass, w_started, w_reports>>

\* lines 146-147: the first sync_filesystems(0) is followed by the second
WorkSweepEnd ==
  /\ wpc = "sweep"
  /\ w_i > NumVolumes
  /\ IF w_pass = 1
       THEN w_pass' = 2 /\ w_i' = 1 /\ UNCHANGED wpc
       ELSE wpc' = "printk" /\ UNCHANGED <<w_pass, w_i>>
  /\ UNCHANGED <<e_calls, e_failed, work_queue, w_trace, w_started, w_reports>>

\* line 148: printk("Emergency Sync complete\n")
WorkPrintk ==
  /\ wpc = "printk"
  /\ w_reports' = w_reports + 1
  /\ wpc' = "kfree"
  /\ UNCHANGED <<e_calls, e_failed, work_queue, w_pass, w_i, w_trace, w_started>>

\* line 149: kfree(work); the work item is gone
WorkKfree ==
  /\ wpc = "kfree"
  /\ wpc' = "idle"
  /\ w_pass' = 0
  /\ w_i' = 0
  /\ w_trace' = <<>>
  /\ UNCHANGED <<e_calls, e_failed, work_queue, w_started, w_reports>>

\* ------------------------------------------------------------ specifications

SnapshotStep == (\E t \in Threads : Snapshot(t)) /\ UNCHANGED <<rangeVars, restVars>>
MutexLockStep == (\E t \in Threads : MutexLock(t)) /\ UNCHANGED <<rangeVars, restVars>>
ReadSnapDoneStep == (\E t \in Threads : ReadSnapDone(t)) /\ UNCHANGED <<rangeVars, restVars>>
EarlyReturnStep == (\E t \in Threads : EarlyReturn(t)) /\ UNCHANGED <<rangeVars, restVars>>
RecordStartStep == (\E t \in Threads : RecordStart(t)) /\ UNCHANGED <<rangeVars, restVars>>
DoSyncBeginStep == (\E t \in Threads : DoSyncBegin(t)) /\ UNCHANGED <<rangeVars, restVars>>
DoSyncEndStep == (\E t \in Threads : DoSyncEnd(t)) /\ UNCHANGED <<rangeVars, restVars>>
RecordEndStep == (\E t \in Threads : RecordEnd(t)) /\ UNCHANGED <<rangeVars, restVars>>
UnlockReturnStep == (\E t \in Threads : UnlockReturn(t)) /\ UNCHANGED <<rangeVars, restVars>>

\* the callers of sync()
SyncNext ==
  \/ SnapshotStep
  \/ MutexLockStep
  \/ ReadSnapDoneStep
  \/ EarlyReturnStep
  \/ RecordStartStep
  \/ DoSyncBeginStep
  \/ DoSyncEndStep
  \/ RecordEndStep
  \/ UnlockReturnStep

Init == SyncInit /\ RangeInit /\ RestInit /\ pgoff32 = TRUE
Next == SyncNext
Spec == Init /\ [][Next]_vars

\* every step of caller t inside sync() except waiting for the mutex
SyncRun(t) ==
  (\/ ReadSnapDone(t) \/ EarlyReturn(t) \/ RecordStart(t) \/ DoSyncBegin(t)
   \/ DoSyncEnd(t) \/ RecordEnd(t) \/ UnlockReturn(t)) /\ UNCHANGED <<rangeVars, restVars>>

\* a running caller keeps running, do_sync() terminates, and a caller waiting
\* in mutex_lock() gets the mutex if it is free again and again
FairSpec ==
  /\ Spec
  /\ \A t \in Threads : WF_vars(SyncRun(t))
  /\ \A t \in Threads : SF_vars(MutexLock(t) /\ UNCHANGED <<rangeVars, restVars>>)

SfrCallStep == SfrCall /\ UNCHANGED <<syncVars, restVars>>
SyncFileRange2Step == SyncFileRange2 /\ UNCHANGED <<syncVars, restVars>>
SfrValidateStep == SfrValidate /\ UNCHANGED <<syncVars, restVars>>
SfrResolveStep == SfrResolve /\ UNCHANGED <<syncVars, restVars>>
SfrWaitBeforeStep == SfrWaitBefore /\ UNCHANGED <<syncVars, restVars>>
SfrWriteStep == SfrWrite /\ UNCHANGED <<syncVars, restVars>>
SfrWaitAfterStep == SfrWaitAfter /\ UNCHANGED <<syncVars, restVars>>
SfrOutPutStep == SfrOutPut /\ UNCHANGED <<syncVars, restVars>>
SfrForgetStep == SfrForget /\ UNCHANGED <<syncVars, restVars>>
ToggleDynFsyncStep == ToggleDynFsync /\ UNCHANGED <<syncVars, restVars>>
ToggleEarlySuspendStep == ToggleEarlySuspend /\ UNCHANGED <<syncVars, restVars>>

\* one caller of sync_file_range / sync_file_range2 and the kill-switch flags
RangeNext ==
  \/ SfrCallStep
  \/ SyncFileRange2Step
  \/ SfrValidateStep
  \/ SfrResolveStep
  \/ SfrWaitBeforeStep
  \/ SfrWriteStep
  \/ SfrWaitAfterStep
  \/ SfrOutPutStep
  \/ SfrForgetStep
  \/ ToggleDynFsyncStep
  \/ ToggleEarlySuspendStep

RangeInitAll == SyncInit /\ RangeInit /\ RestInit /\ sync_seq = 0
RangeSpec == RangeInitAll /\ [][RangeNext]_vars

ToggleEmergencyRemountStep ==
  ToggleEmergencyRemount /\ UNCHANGED <<syncVars, rangeVars, workVars, fileVars, kill_held>>
VolForgetStep == VolForget /\ UNCHANGED <<syncVars, rangeVars, workVars, fileVars, kill_held>>
DoSyncCallStep == DoSyncCall /\ UNCHANGED <<syncVars, rangeVars, workVars, fileVars, kill_held>>
DoSyncWakeupStep == DoSyncWakeup /\ UNCHANGED <<syncVars, rangeVars, workVars, fileVars, kill_held>>
SyncOneSbStep == SyncOneSb /\ UNCHANGED <<syncVars, rangeVars, workVars, fileVars, kill_held>>
SyncFilesystemsEndStep ==
  SyncFilesystemsEnd /\ UNCHANGED <<syncVars, rangeVars, workVars, fileVars, kill_held>>
SyncfsCallStep == SyncfsCall /\ UNCHANGED <<syncVars, rangeVars, workVars, fileVars, kill_held>>
SyncfsFgetStep == SyncfsFget /\ UNCHANGED <<syncVars, rangeVars, workVars, fileVars, kill_held>>
SyncfsDownReadStep == SyncfsDownRead /\ UNCHANGED <<syncVars, rangeVars, workVars, fileVars, kill_held>>
SyncFilesystemFirstStep ==
  SyncFilesystemFirst /\ UNCHANGED <<syncVars, rangeVars, workVars, fileVars, kill_held>>
SyncFilesystemSecondStep ==
  SyncFilesystemSecond /\ UNCHANGED <<syncVars, rangeVars, workVars, fileVars, kill_held>>
SyncfsUpReadStep == SyncfsUpRead /\ UNCHANGED <<syncVars, rangeVars, workVars, fileVars, kill_held>>
SyncfsFputStep == SyncfsFput /\ UNCHANGED <<syncVars, rangeVars, workVars, fileVars, kill_held>>

\* one caller of do_sync() / syncfs() over every combination of mounts, and
\* the emergency-remount flag
VolNext ==
  \/ DoSyncCallStep
  \/ DoSyncWakeupStep
  \/ SyncOneSbStep
  \/ SyncFilesystemsEndStep
  \/ SyncfsCallStep
  \/ SyncfsFgetStep
  \/ SyncfsDownReadStep
  \/ SyncFilesystemFirstStep
  \/ SyncFilesystemSecondStep
  \/ SyncfsUpReadStep
  \/ SyncfsFputStep
  \/ VolForgetStep
  \/ ToggleEmergencyRemountStep

VolInitAll ==
  /\ SyncInit /\ sync_seq = 0
  /\ RangeInit /\ pgoff32 = TRUE
  /\ VolInit
  /\ WorkInit
  /\ FileInit
  /\ kill_held = FALSE
VolSpec == VolInitAll /\ [][VolNext]_vars

EmergencySyncStep ==
  EmergencySync /\ UNCHANGED <<syncVars, rangeVars, volVars, fileVars, kill_held>>
WorkStartStep == WorkStart /\ UNCHANGED <<syncVars, rangeVars, volVars, fileVars, kill_held>>
WorkSyncOneSbStep == WorkSyncOneSb /\ UNCHANGED <<syncVars, rangeVars, volVars, fileVars, kill_held>>
WorkSweepEndStep == WorkSweepEnd /\ UNCHANGED <<syncVars, rangeVars, volVars, fileVars, kill_held>>
WorkPrintkStep == WorkPrintk /\ UNCHANGED <<syncVars, rangeVars, volVars, fileVars, kill_held>>
WorkKfreeStep == WorkKfree /\ UNCHANGED <<syncVars, rangeVars, volVars, fileVars, kill_held>>

\* the callers of emergency_sync() and the workqueue running do_sync_work()
WorkNext ==
  \/ EmergencySyncStep
  \/ WorkStartStep
  \/ WorkSyncOneSbStep
  \/ WorkSweepEndStep
  \/ WorkPrintkStep
  \/ WorkKfreeStep

WorkSpec == VolInitAll /\ [][WorkNext]_vars

FileForgetStep ==
  FileForget /\ UNCHANGED <<syncVars, rangeVars, volVars, workVars, kill_held>>
FsyncStep == Fsync /\ UNCHANGED <<syncVars, rangeVars, volVars, workVars, kill_held>>
FdatasyncStep ==
  Fdatasync /\ UNCHANGED <<syncVars, rangeVars, volVars, workVars, kill_held>>
DoFsyncFgetStep ==
  DoFsyncFget /\ UNCHANGED <<syncVars, rangeVars, volVars, workVars, kill_held>>
VfsFsyncStep ==
  VfsFsync /\ UNCHANGED <<syncVars, rangeVars, volVars, workVars, kill_held>>
VfsFsyncRangeStep ==
  VfsFsyncRange /\ UNCHANGED <<syncVars, rangeVars, volVars, workVars, kill_held>>
DoFsyncFputStep ==
  DoFsyncFput /\ UNCHANGED <<syncVars, rangeVars, volVars, workVars, kill_held>>
GenericWriteSyncStep ==
  GenericWriteSync /\ UNCHANGED <<syncVars, rangeVars, volVars, workVars, kill_held>>

\* the callers of sync() when every entry point is exercised
EntryThreads == {1, 2}

\* the mounts when every entry point is exercised: one super block with both
\* hooks, one mounted read-only, any further one plain
EntryMounts ==
  [v \in Volumes |-> IF v = 1 THEN "full" ELSE IF v = 2 THEN "ro" ELSE "plain"]

\* the sync_file_range arguments when every entry point is exercised
EntryFds == {"fd_closed", "fd_reg", "fd_fifo", "fd_nomap"}
EntryOffsets == {-1, 0, PgoffLimit}
EntryLengths == {0, 10}
EntryFlagSets == {{}, {"WRITE"}, {"WRITE", "WAIT_AFTER"}, {"INVALID"}}

\* no call of any entry point is in progress
AllIdle ==
  /\ rpc = "idle"
  /\ vpc = "idle"
  /\ fpc = "idle"
  /\ \A t \in Threads : pc[t] = "idle"

\* a caller enters sync() while no call of another entry point is in progress
EntrySnapshotStep ==
  /\ rpc = "idle" /\ vpc = "idle" /\ fpc = "idle"
  /\ \E t \in EntryThreads : Snapshot(t)
  /\ kill_held' = IF \A t \in Threads : pc[t] = "idle"
                    THEN KillSwitch
                    ELSE kill_held /\ KillSwitch
  /\ UNCHANGED <<rangeVars, volVars, workVars, fileVars>>

EntrySfrCallStep ==
  /\ AllIdle
  /\ SfrCallWith(EntryFds, EntryOffsets, EntryLengths, EntryFlagSets)
  /\ kill_held' = KillSwitch
  /\ UNCHANGED <<syncVars, volVars, workVars, fileVars>>

EntrySyncfsCallStep ==
  /\ AllIdle
  /\ SyncfsCall
  /\ kill_held' = KillSwitch
  /\ UNCHANGED <<syncVars, rangeVars, workVars, fileVars>>

EntryFsyncCallStep ==
  /\ AllIdle
  /\ FsyncCall
  /\ kill_held' = KillSwitch
  /\ UNCHANGED <<syncVars, rangeVars, volVars, workVars>>

EntryGwsCallStep ==
  /\ AllIdle
  /\ GwsCall
  /\ kill_held' = KillSwitch
  /\ UNCHANGED <<syncVars, rangeVars, volVars, workVars>>

EntryToggleDynFsyncStep ==
  /\ ToggleDynFsync
  /\ kill_held' = (kill_held /\ dyn_fsync_active' /\ ~early_suspend_active')
  /\ UNCHANGED <<syncVars, volVars, workVars, fileVars>>

EntryToggleEarlySuspendStep ==
  /\ ToggleEarlySuspend
  /\ kill_held' = (kill_held /\ dyn_fsync_active' /\ ~early_suspend_active')
  /\ UNCHANGED <<syncVars, volVars, workVars, fileVars>>

\* every entry point of the file and the kill-switch flags; the entry points
\* share no state but the two flags, so one kind of call runs at a time
EntryNext ==
  \/ EntrySnapshotStep
  \/ MutexLockStep
  \/ ReadSnapDoneStep
  \/ EarlyReturnStep
  \/ RecordStartStep
  \/ DoSyncBeginStep
  \/ DoSyncEndStep
  \/ RecordEndStep
  \/ UnlockReturnStep
  \/ EntrySfrCallStep
  \/ SyncFileRange2Step
  \/ SfrValidateStep
  \/ SfrResolveStep
  \/ SfrWaitBeforeStep
  \/ SfrWriteStep
  \/ SfrWaitAfterStep
  \/ SfrOutPutStep
  \/ SfrForgetStep
  \/ EntrySyncfsCallStep
  \/ SyncfsFgetStep
  \/ SyncfsDownReadStep
  \/ SyncFilesystemFirstStep
  \/ SyncFilesystemSecondStep
  \/ SyncfsUpReadStep
  \/ SyncfsFputStep
  \/ VolForgetStep
  \/ EntryFsyncCallStep
  \/ FsyncStep
  \/ FdatasyncStep
  \/ DoFsyncFgetStep
  \/ VfsFsyncStep
  \/ VfsFsyncRangeStep
  \/ DoFsyncFputStep
  \/ EntryGwsCallStep
  \/ GenericWriteSyncStep
  \/ FileForgetStep
  \/ EntryToggleDynFsyncStep
  \/ EntryToggleEarlySuspendStep

EntryInit ==
  /\ SyncInit /\ sync_seq = 0
  /\ RangeInit /\ pgoff32 = TRUE
  /\ VolInit /\ sb_kind = EntryMounts
  /\ WorkInit
  /\ FileInit
  /\ kill_held = FALSE
EntrySpec == EntryInit /\ [][EntryNext]_vars

\* ------------------------------------------------------------------ claims

\* caller t is between the two increments of sync_seq
InPass(t) == pc[t] \in {"call_do_sync", "in_do_sync", "record_end"}

\* a pass that started after caller t read snap has run to completion
FreshPassDone(t) == \E p \in donePasses : p > snapStarted[t]

\* passes that were running at, or started after, the moment t read snap
PassesSince(t) == started - snapDone[t]

\* passes that completed after t read snap
CompletedSince(t) == Cardinality(donePasses) - snapDone[t]

\* C1: a sync() call returns only after a do_sync() pass that started after
\* the call read its snapshot of sync_seq has run to completion, whether it
\* ran the pass itself or returned early through the coalescing test.
C1_ReturnAfterFreshPass ==
  \A t \in Threads : path[t] # "none" => FreshPassDone(t)

\* one caller has returned through the coalescing test, another after its own pass
C1_Witness ==
  \E t, u \in Threads : path[t] = "early" /\ path[u] = "full"

\* C2 as stated: between a caller's snapshot and its return at most two
\* passes run (the one in flight at its arrival plus at most one more).
C2_AtMostTwoPasses ==
  \A t \in Threads : pc[t] # "idle" => PassesSince(t) <= 2

\* completions within one call beyond which the comparison's window is left
WrapPasses == Pow2(SeqBits - 2) + 1

\* C2 amended: a caller needs at most two serialized passes: once two passes
\* have completed after its snapshot it runs no pass of its own when it gets
\* sync_mutex (unless so many completed that the counter left the wrap
\* window); the passes other callers run before that are not bounded by two.
C2_NeedsAtMostTwo ==
  \A t \in Threads :
    pc[t] \in {"call_do_sync", "in_do_sync"} =>
      (CompletedSince(t) < 2 \/ CompletedSince(t) >= WrapPasses)

\* a caller that saw three passes run since its snapshot is about to return early
C2_Witness ==
  \E t \in Threads :
    /\ pc[t] = "test"
    /\ PassesSince(t) >= 3
    /\ CoalesceTest(snap_done[t], snap[t])

\* C3: every sync() call executes do_sync() at most once, so the passes
\* started never exceed the calls started; in particular the second of two
\* back-to-back calls of one caller executes at most one pass.
C3_OnePassPerCall ==
  /\ \A t \in Threads : passes[t] <= 1
  /\ started <= ncalls

\* one caller made the only two calls, back to back, and each ran a pass
C3_Witness ==
  \E t \in Threads :
    /\ ncalls = 2
    /\ started = 2
    /\ path[t] = "full"
    /\ passes[t] = 1
    /\ \A u \in Threads \ {t} : pc[u] = "idle" /\ path[u] = "none"

\* sync_seq is odd exactly when one caller is between its two increments
ParityInv ==
  /\ (sync_seq % 2 = 1) <=> (\E t \in Threads : InPass(t))
  /\ Cardinality({t \in Threads : InPass(t)}) <= 1
  /\ ~warned

\* a change of sync_seq is an increment by 1 made by the holder of sync_mutex
IncByHolder ==
  sync_seq' # sync_seq =>
    /\ sync_seq' = (sync_seq + 1) % SeqMod
    /\ sync_mutex \in Threads
    /\ sync_mutex' = sync_mutex
    /\ pc'[sync_mutex] # pc[sync_mutex]
    /\ \A u \in Threads \ {sync_mutex} : pc'[u] = pc[u]

\* C4: sync_seq is odd exactly when one sync() caller is between its "pass
\* started" and "pass finished" increments and even otherwise; every change
\* of sync_seq is an increment by exactly 1 by the thread holding sync_mutex;
\* the two WARN_ON_ONCE parity assertions never fire.
C4_Parity == []ParityInv /\ [][IncByHolder]_vars

\* the counter is odd during a pass, after having wrapped through 0
C4_Witness ==
  \E t \in Threads : pc[t] = "in_do_sync" /\ sync_seq = 1 /\ started >= 2

\* C5: at most one thread at a time executes do_sync() on behalf of sync():
\* two callers are never both between the first and second increment.
C5_OnePassAtATime ==
  \A t, u \in Threads : (t # u /\ InPass(t)) => ~InPass(u)

\* a caller is inside do_sync() while another waits in mutex_lock()
C5_Witness ==
  \E t, u \in Threads : pc[t] = "in_do_sync" /\ pc[u] = "lock"

\* the counter wrapped: snap + 3 overflows, or sync_seq passed 0 between the reads
WrapCase(t) == snap[t] + 3 >= SeqMod \/ snap_done[t] < snap[t]

\* the coalescing test of a caller at line 119 never skips a needed pass
NoSkipAcrossWrap ==
  \A t \in Threads :
    (pc[t] = "test" /\ WrapCase(t) /\ CoalesceTest(snap_done[t], snap[t]))
      => FreshPassDone(t)

\* C6: with sync_seq a fixed-width unsigned integer that wraps to 0, a call
\* whose snapshot is near the maximum returns early only if a pass that
\* started after its snapshot has completed, it eventually returns, and the
\* comparison errs only towards one extra pass (never more than one pass per
\* call), never towards skipping a needed one.
C6_WrapSafe ==
  /\ []NoSkipAcrossWrap
  /\ [](\A t \in Threads : WrapCase(t) => passes[t] <= 1)
  /\ \A t \in Threads :
       (pc[t] = "lock" /\ snap[t] + 3 >= SeqMod) ~> (pc[t] = "idle")

\* a caller whose snapshot was near the maximum passes the test after the wrap
C6_Witness ==
  \E t \in Threads :
    /\ pc[t] = "test"
    /\ snap[t] + 3 >= SeqMod
    /\ snap_done[t] < snap[t]
    /\ CoalesceTest(snap_done[t], snap[t])

\* C7: if every pass terminates and the mutex is granted fairly, every
\* sync() call eventually returns; it returns 0 and never returns holding
\* sync_mutex.
C7_AlwaysReturns ==
  /\ \A t \in Threads : (pc[t] # "idle") ~> (pc[t] = "idle")
  /\ [](\A t \in Threads : path[t] # "none" => ret[t] = 0)
  /\ [](\A t \in Threads : pc[t] = "idle" => sync_mutex # t)

\* every caller has called and returned, and the mutex is free
C7_Witness ==
  /\ ncalls = MaxCalls
  /\ \A t \in Threads : pc[t] = "idle" /\ path[t] # "none" /\ ret[t] = 0
  /\ sync_mutex = NoOwner

\* the conditions under which C8 says the request is rejected, on the
\* arguments as the caller passed them
C8_Invalid ==
  \/ r_flags \ {"WAIT_BEFORE", "WRITE", "WAIT_AFTER"} # {}
  \/ r_offset < 0
  \/ WrapLoff(r_offset + r_arg_nbytes) < 0
  \/ WrapLoff(r_offset + r_arg_nbytes) < r_offset
  \/ r_arg_nbytes < 0

\* the request (0, 0, WRITE) passes the argument checks
C8_ZeroAccepted ==
  (r_offset = 0 /\ r_arg_nbytes = 0 /\ r_flags = {"WRITE"}) =>
    /\ r_lookups = 1
    /\ r_fd = "fd_reg" =>
         /\ Len(r_trace) = 1
         /\ r_trace[1].kind = "write"
         /\ r_trace[1].start = 0
         /\ r_trace[1].end = LLONG_MAX

\* C8 as stated: sync_file_range returns InvalidArgument and invokes no
\* phase whenever the flags or the range are invalid; (0, 0, WRITE) is accepted.
C8_RejectsInvalid ==
  r_returned =>
    /\ C8_Invalid => (r_ret = 0 - EINVAL /\ r_trace = <<>>)
    /\ C8_ZeroAccepted

\* C8 amended: unless the call is cut short by the kill switch (fsync
\* suppressed and not suspended, which returns success), sync_file_range
\* returns InvalidArgument and invokes no phase whenever the flags or the
\* range are invalid, and (0, 0, WRITE) is accepted; no phase is invoked for
\* an invalid request in either case.
C8_RejectsInvalidUnlessKilled ==
  r_returned =>
    /\ C8_Invalid => r_trace = <<>>
    /\ ~r_short => (C8_Invalid => r_ret = 0 - EINVAL)
    /\ ~r_short => C8_ZeroAccepted

\* (MAX-5, 100, 0) was rejected with the kill switch off
C8_Witness ==
  /\ r_returned
  /\ ~r_short
  /\ r_offset = LLONG_MAX - 5
  /\ r_arg_nbytes = 100
  /\ r_flags = {}
  /\ r_ret = 0 - EINVAL

\* the call reached the phases: the checks passed and the descriptor
\* resolved to an object with a mapping
Accepted ==
  /\ r_lookups = 1
  /\ r_fd \in {"fd_reg", "fd_dir", "fd_blk", "fd_lnk"}

\* the phases the flags ask for, in the fixed order
Planned(flags) ==
  (IF "WAIT_BEFORE" \in flags THEN <<"wait">> ELSE <<>>)
    \o (IF "WRITE" \in flags THEN <<"write">> ELSE <<>>)
    \o (IF "WAIT_AFTER" \in flags THEN <<"wait">> ELSE <<>>)

\* the phases invoked so far are the first ones planned, and none but the
\* last has failed
TraceFollowsPlan ==
  /\ Len(r_trace) <= Len(Planned(r_flags))
  /\ \A i \in 1..Len(r_trace) : r_trace[i].kind = Planned(r_flags)[i]
  /\ \A i \in 1..(Len(r_trace) - 1) : r_trace[i].res >= 0

\* C9: for an accepted call the phases invoked are exactly the flagged
\* subsequence of (WAIT_BEFORE wait, WRITE write-back, WAIT_AFTER wait) in
\* that order, cut off after the first phase that fails; with flags = {WRITE}
\* no wait is invoked, and with all three flags success is not returned
\* before the wait that follows the write has completed.
C9_PhaseOrder ==
  Accepted =>
    /\ TraceFollowsPlan
    /\ r_returned =>
         \/ Len(r_trace) = Len(Planned(r_flags))
         \/ r_trace[Len(r_trace)].res < 0
    /\ r_flags = {"WRITE"} => \A i \in 1..Len(r_trace) : r_trace[i].kind # "wait"
    /\ (r_returned /\ r_ret = 0 /\ r_flags = {"WAIT_BEFORE", "WRITE", "WAIT_AFTER"}) =>
         /\ Len(r_trace) = 3
         /\ r_trace[2].kind = "write"
         /\ r_trace[3].kind = "wait"
         /\ r_trace[3].res = 0

\* an accepted call with all three flags returned success after three phases
C9_Witness ==
  /\ Accepted
  /\ r_returned
  /\ r_flags = {"WAIT_BEFORE", "WRITE", "WAIT_AFTER"}
  /\ Len(r_trace) = 3
  /\ r_ret = 0

\* the phases that failed
Failed == {i \in 1..Len(r_trace) : r_trace[i].res < 0}

\* C10: the result of an accepted call is the error of the first phase that
\* fails; if none fails it is the result of the last phase invoked (the
\* WAIT_AFTER result whenever WAIT_AFTER is flagged); it is success when no
\* flag is set.
C10_Result ==
  (Accepted /\ r_returned) =>
    /\ Failed # {} =>
         \A i \in Failed : (\A j \in Failed : i <= j) => r_ret = r_trace[i].res
    /\ (Failed = {} /\ r_trace # <<>>) => r_ret = r_trace[Len(r_trace)].res
    /\ ("WAIT_AFTER" \in r_flags /\ \A i \in Failed : i = Len(Planned(r_flags))) =>
         /\ Len(r_trace) = Len(Planned(r_flags))
         /\ r_ret = r_trace[Len(r_trace)].res
    /\ r_flags = {} => (r_ret = 0 /\ r_trace = <<>>)

\* the write phase failed after a successful wait, and WAIT_AFTER was skipped
C10_Witness ==
  /\ Accepted
  /\ r_returned
  /\ r_flags = {"WAIT_BEFORE", "WRITE", "WAIT_AFTER"}
  /\ Len(r_trace) = 2
  /\ r_trace[1].res = 0
  /\ r_ret = 0 - ENOSPC

\* the descriptor resolves to an object that is neither a regular file, a
\* directory, a block device nor a symbolic link
PipeLike == r_fd \in {"fd_fifo", "fd_sock"}

\* the request passes every argument check of lines 295-312, on the
\* arguments as the caller passed them
ArgsPass == ~C8_Invalid /\ ~(pgoff32 /\ r_offset >= PgoffLimit)

\* C11 as stated: sync_file_range on a pipe-like object returns NotSeekable
\* and invokes no phase, for all arguments that pass the argument checks, on
\* a 64-bit and on a 32-bit page-index domain.
C11_NotSeekable ==
  PipeLike =>
    /\ r_trace = <<>>
    /\ (r_returned /\ ArgsPass) => r_ret = 0 - ESPIPE

\* C11 amended: unless the call is cut short by the kill switch (which
\* returns success before the descriptor is looked at), sync_file_range on a
\* pipe-like object returns NotSeekable for all arguments that pass the
\* argument checks, on both page-index domains; it invokes no phase in
\* either case.
C11_NotSeekableUnlessKilled ==
  PipeLike =>
    /\ r_trace = <<>>
    /\ (r_returned /\ ArgsPass /\ ~r_short) => r_ret = 0 - ESPIPE

\* a FIFO was refused on the 32-bit domain, with all three flags set and an
\* end that was clamped
C11_Witness ==
  /\ r_returned
  /\ ~r_short
  /\ pgoff32
  /\ r_fd = "fd_fifo"
  /\ r_offset = 1
  /\ r_arg_nbytes = 100
  /\ r_flags = {"WAIT_BEFORE", "WRITE", "WAIT_AFTER"}
  /\ r_ret = 0 - ESPIPE

\* offset + length reaches past the byte range of a 32-bit page index
EndPastDomain == pgoff32 /\ WrapLoff(r_offset + r_arg_nbytes) >= PgoffLimit

\* the inclusive end C12 states for the request
StatedEnd ==
  IF r_arg_nbytes = 0 \/ EndPastDomain
    THEN LLONG_MAX
    ELSE r_offset + r_arg_nbytes - 1

\* C12: every phase of an accepted request is handed [offset, end] with end
\* = LLONG_MAX when length is 0 or when, on a 32-bit page index, offset +
\* length reaches past the representable range, and end = offset + length - 1
\* otherwise, so that 0 <= offset <= end; a valid request whose offset is
\* past the range of a 32-bit page index does no phase and returns success.
C12_Interval ==
  /\ Accepted =>
       \A i \in 1..Len(r_trace) :
         /\ r_trace[i].start = r_offset
         /\ r_trace[i].end = StatedEnd
         /\ 0 <= r_trace[i].start
         /\ r_trace[i].start <= r_trace[i].end
  /\ (~C8_Invalid /\ pgoff32 /\ r_offset >= PgoffLimit) =>
       /\ r_trace = <<>>
       /\ r_returned => r_ret = 0

\* a write phase was handed [1, 10] for the request (1, 10, WRITE)
C12_Witness ==
  /\ Accepted
  /\ r_offset = 1
  /\ r_arg_nbytes = 10
  /\ Len(r_trace) = 1
  /\ r_trace[1].start = 1
  /\ r_trace[1].end = 10

\* C19 as stated: the argument checks run before the descriptor is resolved:
\* an invalid request returns InvalidArgument and a request past the 32-bit
\* domain returns success without a descriptor lookup or a file reference;
\* BadDescriptor is returned only when every argument check passed, and
\* NotSeekable or the missing-mapping InvalidArgument only after the
\* descriptor resolved.
C19_ChecksFirst ==
  /\ r_lookups = 0 => r_refs = 0
  /\ r_returned =>
       /\ C8_Invalid => (r_ret = 0 - EINVAL /\ r_lookups = 0)
       /\ (~C8_Invalid /\ ~ArgsPass) => (r_ret = 0 /\ r_lookups = 0)
       /\ r_ret = 0 - EBADF => (ArgsPass /\ r_lookups = 1 /\ ~Resolves(r_fd))
       /\ r_ret = 0 - ESPIPE => (r_lookups = 1 /\ Resolves(r_fd))
       /\ (r_ret = 0 - EINVAL /\ ~C8_Invalid) => (r_lookups = 1 /\ Resolves(r_fd))

\* C19 amended: the same, except that a call cut short by the kill switch
\* returns success instead of InvalidArgument for an invalid request, still
\* without a descriptor lookup.
C19_ChecksFirstUnlessKilled ==
  /\ r_lookups = 0 => r_refs = 0
  /\ r_returned =>
       /\ C8_Invalid => r_lookups = 0
       /\ (C8_Invalid /\ ~r_short) => r_ret = 0 - EINVAL
       /\ (~C8_Invalid /\ ~ArgsPass) => (r_ret = 0 /\ r_lookups = 0)
       /\ r_ret = 0 - EBADF => (ArgsPass /\ r_lookups = 1 /\ ~Resolves(r_fd))
       /\ r_ret = 0 - ESPIPE => (r_lookups = 1 /\ Resolves(r_fd))
       /\ (r_ret = 0 - EINVAL /\ ~C8_Invalid) => (r_lookups = 1 /\ Resolves(r_fd))

\* invalid flags on a closed descriptor were refused with InvalidArgument,
\* not BadDescriptor, and the descriptor was never looked up
C19_Witness ==
  /\ r_returned
  /\ ~r_short
  /\ r_fd = "fd_closed"
  /\ r_flags = {"INVALID"}
  /\ r_ret = 0 - EINVAL
  /\ r_lookups = 0

\* the mounted super blocks that are not read-only
Writable == {v \in Volumes : ~MS_RDONLY(v)}

\* the calls in trace tr on super block v with the given wait argument
CallsOn(tr, v, wait) == {i \in 1..Len(tr) : tr[i].sb = v /\ tr[i].wait = wait}

\* C14: one do_sync() pass calls __sync_filesystem(sb, 0) on every mounted
\* writable super block and only afterwards __sync_filesystem(sb, 1) on every
\* one of them; a failure on one super block never stops or shortens the
\* sweep, so when the pass returns every mounted writable super block has
\* completed a blocking flush.
C14_TwoSweeps ==
  v_entry = "do_sync" =>
    /\ \A i \in 1..Len(v_trace) : v_trace[i].sb \in Writable
    /\ \A i, j \in 1..Len(v_trace) :
         (i < j /\ v_trace[i].wait) => v_trace[j].wait
    /\ \A i \in 1..Len(v_trace) :
         v_trace[i].wait =>
           \A v \in Writable : \E j \in 1..(i - 1) : j \in CallsOn(v_trace, v, FALSE)
    /\ \A v \in Writable :
         /\ Cardinality(CallsOn(v_trace, v, FALSE)) <= 1
         /\ Cardinality(CallsOn(v_trace, v, TRUE)) <= 1
    /\ v_returned =>
         \A v \in Writable :
           /\ Cardinality(CallsOn(v_trace, v, FALSE)) = 1
           /\ \E i \in CallsOn(v_trace, v, TRUE) :
                NoopBdi(v) \/ v_trace[i].steps[Len(v_trace[i].steps)] = "__sync_blockdev"

\* a pass over two writable super blocks returned after both sweeps although
\* a step and the block-device flush failed on the first super block in both
C14_Witness ==
  /\ v_entry = "do_sync"
  /\ v_returned
  /\ Cardinality(Writable) >= 2
  /\ Len(v_trace) = 2 * Cardinality(Writable)
  /\ v_trace[1].early
  /\ v_trace[1].ret < 0
  /\ \E i \in 1..Len(v_trace) :
       v_trace[i].wait /\ v_trace[i].sb = v_trace[1].sb /\ v_trace[i].ret < 0

\* the steps C15 states for a super block with a real backing device
StatedSteps(sb, wait) ==
  (IF sb_kind[sb] = "full" THEN <<"quota_sync">> ELSE <<>>)
    \o (IF wait THEN <<"sync_inodes_sb">> ELSE <<"writeback_inodes_sb">>)
    \o (IF sb_kind[sb] = "full" THEN <<"sync_fs">> ELSE <<>>)
    \o <<"__sync_blockdev">>

\* C15: __sync_filesystem on a writable super block with a real backing
\* device attempts quota_sync (if present), the inode write-back (synchronous
\* when wait, background otherwise), sync_fs (if present) and the
\* block-device flush, in that order, whatever the earlier steps return, and
\* its result is the block-device flush's result; with the no-op backing
\* device it returns success having attempted no step.
C15_FourSteps ==
  \A i \in 1..Len(v_trace) :
    LET call == v_trace[i]
    IN  IF sb_kind[call.sb] = "noop"
          THEN call.steps = <<>> /\ call.ret = 0
          ELSE /\ call.steps = StatedSteps(call.sb, call.wait)
               /\ call.ret = call.bdev

\* a blocking call on a super block with both hooks attempted all four steps
\* and returned the block-device flush's success although an earlier step failed
C15_Witness ==
  \E i \in 1..Len(v_trace) :
    /\ sb_kind[v_trace[i].sb] = "full"
    /\ v_trace[i].wait
    /\ v_trace[i].early
    /\ Len(v_trace[i].steps) = 4
    /\ v_trace[i].ret = 0

\* syncfs holds the unmount read lock from before the first pass until
\* after the last one
LockHeld ==
  /\ ~v_warned
  /\ vpc \in {"sf_sync", "sf_second"} => v_lock = 1
  /\ (v_entry = "syncfs" /\ v_trace # <<>> /\ v_ups = 0) => v_lock = 1

\* C16 as stated: syncfs(fd) returns BadDescriptor when fd does not resolve;
\* otherwise it runs a non-blocking pass followed by a blocking pass on that
\* volume with the unmount read lock held throughout and returns the flush
\* result; a read-only volume yields success with no flush.
C16_TwoPasses ==
  /\ LockHeld
  /\ (v_entry = "syncfs" /\ v_returned) =>
       IF ~FdResolves(v_fd)
         THEN v_ret = 0 - EBADF /\ v_trace = <<>>
       ELSE IF MS_RDONLY(v_fd)
         THEN v_ret = 0 /\ v_trace = <<>>
       ELSE /\ Len(v_trace) = 2
            /\ v_trace[1].sb = v_fd /\ ~v_trace[1].wait
            /\ v_trace[2].sb = v_fd /\ v_trace[2].wait
            /\ v_ret = v_trace[2].ret

\* what syncfs has done on return, with one or two passes
SyncfsOutcome ==
  (v_entry = "syncfs" /\ v_returned) =>
    IF ~FdResolves(v_fd)
      THEN v_ret = 0 - EBADF /\ v_trace = <<>>
    ELSE IF MS_RDONLY(v_fd)
      THEN v_ret = 0 /\ v_trace = <<>>
    ELSE /\ Len(v_trace) \in {1, 2}
         /\ \A i \in 1..Len(v_trace) : v_trace[i].sb = v_fd
         /\ Len(v_trace) = 1 <=> v_trace[1].ret < 0
         /\ Len(v_trace) = 2 => v_trace[2].wait
         /\ v_ret = v_trace[Len(v_trace)].ret

\* the first pass of syncfs is blocking exactly when an emergency remount
\* is in progress
FirstPassMode ==
  (v_entry = "syncfs" /\ v_trace = <<>> /\ v_trace' # <<>>) =>
    v_trace'[1].wait = vfs_emergency_remount

\* C16 amended: syncfs(fd) returns BadDescriptor when fd does not resolve; on
\* a read-only volume it returns success with no flush; otherwise, with the
\* unmount read lock held from before the first pass until after the last,
\* it runs a first pass that is non-blocking unless an emergency remount is
\* in progress (then it is blocking), returns that pass's error if it failed,
\* and only otherwise runs the blocking pass and returns its result.
C16_PassesUnlessFailed ==
  /\ [](LockHeld /\ SyncfsOutcome)
  /\ [][FirstPassMode]_vars

\* syncfs returned the error of a failed non-blocking pass, having made no
\* blocking pass, and has released the lock
C16_Witness ==
  /\ v_entry = "syncfs"
  /\ v_returned
  /\ Len(v_trace) = 1
  /\ ~v_trace[1].wait
  /\ v_ret = 0 - EIO
  /\ v_lock = 0
  /\ v_ups = 1

\* the work item that has run its sweeps made two sweeps over the writable
\* super blocks, one after the other
TwoSweepsDone ==
  /\ Len(w_trace) = 2 * Cardinality(Writable)
  /\ \A v \in Writable :
       /\ \E i \in 1..Cardinality(Writable) : w_trace[i].sb = v
       /\ \E i \in (Cardinality(Writable) + 1)..Len(w_trace) : w_trace[i].sb = v

\* C18: emergency_sync never blocks its caller and reports no error: if the
\* allocation succeeds exactly one work item is queued, which makes the
\* non-blocking sweep sync_filesystems(0) exactly twice, never a blocking
\* one, and then reports completion; if the allocation fails nothing is
\* queued and no flush happens.
C18_Emergency ==
  /\ e_calls < MaxEmergency => ENABLED EmergencySync
  /\ work_queue + w_started = e_calls - e_failed
  /\ \A i \in 1..Len(w_trace) : ~w_trace[i].wait /\ w_trace[i].sb \in Writable
  /\ Len(w_trace) <= 2 * Cardinality(Writable)
  /\ wpc \in {"printk", "kfree"} => TwoSweepsDone
  /\ w_reports = (IF wpc \in {"idle", "kfree"} THEN w_started ELSE w_started - 1)
  /\ e_calls = e_failed => (w_started = 0 /\ wpc = "idle" /\ w_trace = <<>>)

\* of two calls one failed to allocate; the work item of the other has made
\* both sweeps over two writable super blocks and reported completion
C18_Witness ==
  /\ e_calls = 2
  /\ e_failed = 1
  /\ w_reports = 1
  /\ wpc = "kfree"
  /\ Len(w_trace) = 4
  /\ w_trace[1].ret < 0

\* no flush work has been done by a call in progress or by the last call:
\* no full-flush pass, no volume flush, no f_op->fsync call, no range phase
NoFlushWork ==
  /\ \A t \in Threads : ~InPass(t)
  /\ v_trace = <<>>
  /\ f_calls = <<>>
  /\ r_trace = <<>>

\* C13 as stated: while the kill switch holds, every entry point returns
\* success for every argument, an unresolvable descriptor included, and does
\* no flush work.
C13_KillSwitch ==
  kill_held =>
    /\ NoFlushWork
    /\ r_returned => r_ret = 0
    /\ v_returned => v_ret = 0
    /\ f_returned => f_ret = 0

\* C13 amended: while the kill switch holds, fsync, sync_file_range,
\* sync_file_range2 and the write-completion hook return success for every
\* argument without resolving a descriptor and without a flush capability
\* call or range phase; fdatasync makes no flush capability call either but
\* resolves its descriptor first, returning BadDescriptor if that fails and
\* success otherwise; sync() and syncfs(fd) do not test the switch: sync()
\* still returns only after a fresh pass, and syncfs still flushes its volume.
C13_KillSwitchWhereTested ==
  /\ kill_held =>
       /\ r_trace = <<>>
       /\ r_lookups = 0
       /\ r_returned => r_ret = 0
       /\ f_calls = <<>>
       /\ f_entry \in {"fsync", "generic_write_sync"} =>
            /\ f_refs = 0
            /\ f_puts = 0
            /\ f_returned => f_ret = 0
       /\ (f_entry = "fdatasync" /\ f_returned) =>
            f_ret = (IF Resolves(f_fd) THEN 0 ELSE 0 - EBADF)
  /\ \A t \in Threads : path[t] # "none" => FreshPassDone(t)
  /\ SyncfsOutcome

\* with the switch on throughout, fsync on a descriptor that is not open
\* returned success
C13_Witness ==
  /\ kill_held
  /\ f_entry = "fsync"
  /\ f_fd = "fd_closed"
  /\ f_returned
  /\ f_short
  /\ f_ret = 0

\* the call got as far as vfs_fsync_range
ReachedVfsFsyncRange ==
  \/ f_entry \in {"fsync", "fdatasync"} /\ Resolves(f_fd)
  \/ f_entry = "generic_write_sync" /\ ("O_DSYNC" \in f_oflags \/ f_isync)

\* C17: unless the kill switch cut the call short, vfs_fsync_range fails
\* with Unsupported (-EINVAL in the code) and flushes nothing when the file
\* has no fsync method, and otherwise calls the method exactly once over the
\* interval and datasync flag it was given and returns its result unchanged;
\* fsync uses [0, LLONG_MAX] with datasync 0, fdatasync the same interval with
\* datasync 1; both return BadDescriptor for a descriptor that does not
\* resolve; the 5-second diagnostic does not change the returned value.
C17_SingleFile ==
  /\ Len(f_calls) <= 1
  /\ (f_returned /\ ~f_short) =>
       /\ ~ReachedVfsFsyncRange => f_calls = <<>>
       /\ (ReachedVfsFsyncRange /\ f_fd = "fd_nofsync") =>
            (f_ret = 0 - EINVAL /\ f_calls = <<>>)
       /\ (ReachedVfsFsyncRange /\ f_fd # "fd_nofsync") =>
            /\ Len(f_calls) = 1
            /\ f_ret = f_calls[1].res
            /\ f_calls[1].start = f_start
            /\ f_calls[1].end = f_end
            /\ f_calls[1].datasync = f_datasync
       /\ (f_entry \in {"fsync", "fdatasync"} /\ f_calls # <<>>) =>
            /\ f_calls[1].start = 0
            /\ f_calls[1].end = LLONG_MAX
            /\ f_calls[1].datasync = (f_entry = "fdatasync")
       /\ (f_entry = "generic_write_sync" /\ f_calls # <<>>) =>
            /\ f_calls[1].start = f_pos
            /\ f_calls[1].end = WrapLoff(f_pos + f_count - 1)
       /\ (f_entry \in {"fsync", "fdatasync"} /\ f_fd = "fd_closed") =>
            f_ret = 0 - EBADF

\* fdatasync took five seconds or more and returned the fsync method's error
C17_Witness ==
  /\ f_entry = "fdatasync"
  /\ f_returned
  /\ ~f_short
  /\ f_diag
  /\ Len(f_calls) = 1
  /\ f_calls[1].datasync
  /\ f_calls[1].end = LLONG_MAX
  /\ f_ret = 0 - EIO

\* C20: on every return path of syncfs, fsync / fdatasync and
\* sync_file_range a resolved file reference is released exactly once before
\* the call returns and none is released when resolution failed; syncfs
\* releases the unmount read lock exactly once; a returned call holds no
\* reference and no lock.
C20_Balanced ==
  /\ v_lock \in {0, 1}
  /\ r_refs \in {0, 1}
  /\ rpc \in {"idle", "entry", "entry2", "fget", "done"} => r_refs = 0
  /\ rpc \in {"wait_before", "write", "wait_after", "out_put"} => r_refs = 1
  /\ r_refs = 1 => (r_lookups = 1 /\ Resolves(r_fd))
  /\ f_refs \in {0, 1} /\ f_refs + f_puts <= 1
  /\ fpc \in {"idle", "fsync", "fdatasync", "fget", "gws", "done"} => f_refs = 0
  /\ (fpc \in {"vfs_fsync", "vfs_fsync_range", "fput"} /\ f_entry # "generic_write_sync") =>
       f_refs = 1
  /\ f_entry = "generic_write_sync" => (f_refs = 0 /\ f_puts = 0)
  /\ ~Resolves(f_fd) => (f_refs = 0 /\ f_puts = 0)
  /\ (f_returned /\ Resolves(f_fd) /\ f_entry = "fdatasync") => f_puts = 1
  /\ (f_returned /\ Resolves(f_fd) /\ f_entry = "fsync" /\ ~f_short) => f_puts = 1
  /\ v_refs \in {0, 1} /\ v_refs + v_puts <= 1 /\ v_lock + v_ups <= 1
  /\ vpc \in {"idle", "sf_fget", "done"} => (v_refs = 0 /\ v_lock = 0)
  /\ vpc \in {"sf_down", "sf_sync", "sf_second", "sf_up", "sf_fput"} => v_refs = 1
  /\ (v_returned /\ v_entry = "syncfs") =>
       /\ v_puts = (IF FdResolves(v_fd) THEN 1 ELSE 0)
       /\ v_ups = (IF FdResolves(v_fd) THEN 1 ELSE 0)

\* syncfs returned the error of a failed pass, having released the
\* reference and the lock once each
C20_Witness ==
  /\ v_entry = "syncfs"
  /\ v_returned
  /\ v_ret = 0 - EIO
  /\ v_puts = 1
  /\ v_ups = 1
  /\ v_refs = 0
  /\ v_lock = 0
====
